---- MODULE Spec2Model ----
(***************************************************************************)
(* Order / cart / stock workflow of the marketplace backend.               *)
(*                                                                         *)
(* The database tables (Product, CartItem, Order, OrderItem, User.role)    *)
(* are the shared state.  Every HTTP request is a process held in a slot   *)
(* of `req`; it advances by one step per awaited database call, so that    *)
(* the code between two awaits is one atomic action.  Each step takes the  *)
(* outcome `ok` of its database call as a parameter: ok = FALSE is the     *)
(* supabase client returning { data: null, error }.                        *)
(***************************************************************************)
EXTENDS Integers, Sequences, FiniteSets, TLC

(***************************************************************************)
(* Bounds of the model.                                                    *)
(***************************************************************************)
MaxStock == 2
MaxQty == 2
MaxOrders == 2
MaxCartLines == 3

(***************************************************************************)
(* Finite input domains.                                                   *)
(***************************************************************************)
Users == {"u1", "u2"}
Anon == "anon"
Callers == Users \cup {Anon}
Shopper == "u1"
Products == {"p1", "p2"}
Contended == "p1"
NoProduct == "px"
CustomerAndAdmin == [u \in Users |-> IF u = "u1" THEN "USER" ELSE "ADMIN"]
StoreOwnerAndCustomer == [u \in Users |-> IF u = "u1" THEN "STORE_OWNER" ELSE "USER"]
RoleAssignments == {CustomerAndAdmin, StoreOwnerAndCustomer}
ValidRoles == {"USER", "ARTIST", "ORGANIZER", "STORE_OWNER", "ADMIN"}
LifeOrderIds == {1}
FaultOrderIds == {1, 2}
ConserveOrderIds == {1, 2}

StatusOrderIds == {1, 2}

FrameOrderIds == {1, 2}
FrameStatusInputs == {"PAID", "PENDING"}
Prices == [p \in Products |-> IF p = "p1" THEN 2 ELSE 3]
OrderStatus == {"PENDING", "PAID", "SHIPPED", "DELIVERED", "CANCELLED"}
StatusInputs == OrderStatus \cup {"REFUNDED"}
Addresses == {"", "addr"}
StoreOwnerOf == [p \in Products |-> IF p = "p1" THEN "u1" ELSE "u2"]
ProductBodies == {[isActive |-> FALSE], [price |-> 5, stock |-> 1]}
Slots == {1, 2}

VARIABLES stock, price, isActive, role, cartItem, nextCartId, order, nextOrderId, orderItem, req

vars == <<stock, price, isActive, role, cartItem, nextCartId, order, nextOrderId, orderItem, req>>

db == <<stock, price, isActive, role, cartItem, nextCartId, order, nextOrderId, orderItem>>

(***************************************************************************)
(* Helpers on tables.                                                      *)
(***************************************************************************)
RECURSIVE SumSeq(_)
SumSeq(s) == IF s = <<>> THEN 0 ELSE Head(s) + SumSeq(Tail(s))

Perms(S) == {s \in [1..Cardinality(S) -> S] : \A x \in S : \E i \in 1..Cardinality(S) : s[i] = x}

Min(S) == CHOOSE x \in S : \A y \in S : x <= y

CartOf(u) == {c \in cartItem : c.userId = u}

ItemsOf(o) == SelectSeq(orderItem, LAMBDA it : it.orderId = o)

\* The database as one value, for the snapshot taken when a request starts.
Snapshot == [stock |-> stock, price |-> price, isActive |-> isActive,
             cartItem |-> cartItem, order |-> order, orderItem |-> orderItem]

NoSnapshot == [stock |-> <<>>, price |-> <<>>, isActive |-> <<>>,
               cartItem |-> {}, order |-> <<>>, orderItem |-> <<>>]

\* No field of the body is defined.
NoBody == <<>>

NoMsg == [text |-> "", name |-> ""]

NoItem == [id |-> 0, quantity |-> 0]

\* A request: its inputs (user, id, productId, quantity, status, shippingAddress, body),
\* the handler's local variables, its position pc and its response.  `failed`
\* is history: a database call of the request returned an error and the
\* handler went on.
IdleReq == [kind |-> "none", pc |-> "idle", user |-> Anon, id |-> 0, productId |-> "",
            quantity |-> 0, status |-> "", shippingAddress |-> "", body |-> NoBody,
            cartItems |-> <<>>, orderItems |-> <<>>,
            totalPrice |-> 0, order |-> 0, i |-> 0, productStock |-> 0, existingItem |-> NoItem,
            http |-> 0, error |-> NoMsg, failed |-> FALSE, pre |-> NoSnapshot]

\* throw createError(text, code): the error handler answers with the status.
Throw(r, code, text, name) ==
    req' = [req EXCEPT ![r].pc = "done", ![r].http = code, ![r].error = [text |-> text, name |-> name]]

\* res.status(code).json(...)
Respond(r, code) ==
    req' = [req EXCEPT ![r].pc = "done", ![r].http = code]

\* Full stock, empty carts, no orders, no request.
InitTables ==
    /\ stock = [p \in Products |-> MaxStock]
    /\ price = Prices
    /\ isActive = [p \in Products |-> TRUE]
    /\ cartItem = {}
    /\ nextCartId = 1
    /\ order = <<>>
    /\ nextOrderId = 1
    /\ orderItem = <<>>
    /\ req = [r \in Slots |-> IdleReq]

Init == InitTables /\ role = CustomerAndAdmin

InitLife == InitTables /\ role \in RoleAssignments

InitAuth == InitTables /\ role \in [Users -> ValidRoles]

(***************************************************************************)
(* Middleware: authenticate, authorize, validateRequest.                   *)
(***************************************************************************)
\* authenticate: no (valid) bearer token -> 401, otherwise req.user is set.
Authenticated(u) == u \in Users

Authorized_NoCheck(u, roles) == TRUE

\* authorize(...roles): the caller's role must be one of the listed roles.
Authorized(u, roles) == role[u] \in roles

\* A request enters a free slot; the snapshot of the database is history.
Begin(kind, u) ==
    [IdleReq EXCEPT !.kind = kind, !.user = u, !.pre = Snapshot]

Rejected(rec, code, text) ==
    [rec EXCEPT !.pc = "done", !.http = code, !.error = [text |-> text, name |-> ""]]

(***************************************************************************)
(* POST /api/orders : createOrder                                          *)
(***************************************************************************)
\* The rows of the select with the joined product, in the order `lines`.
JoinCart(lines) ==
    [k \in 1..Len(lines) |->
        [id |-> lines[k].id, quantity |-> lines[k].quantity,
         product |-> [id |-> lines[k].productId, price |-> price[lines[k].productId],
                      stock |-> stock[lines[k].productId], name |-> lines[k].productId]]]

CartIsEmpty_Never(items) == FALSE

\* !cartItems || cartItems.length === 0
CartIsEmpty(items) == Len(items) = 0

FirstInsufficient_Strict(items) ==
    LET bad == {k \in 1..Len(items) : items[k].product.stock <= items[k].quantity}
    IN IF bad = {} THEN 0 ELSE Min(bad)

FirstInsufficient_FirstOnly(items) ==
    IF Len(items) >= 1 /\ items[1].product.stock < items[1].quantity THEN 1 ELSE 0

FirstInsufficient_Off(items) == 0

\* Index of the first line the validation loop rejects, 0 if none.
FirstInsufficient(items) ==
    LET bad == {k \in 1..Len(items) : items[k].product.stock < items[k].quantity}
    IN IF bad = {} THEN 0 ELSE Min(bad)

TotalPrice_NoQuantity(items) ==
    SumSeq([k \in 1..Len(items) |-> items[k].product.price])

\* totalPrice += product.price * item.quantity
TotalPrice(items) ==
    SumSeq([k \in 1..Len(items) |-> items[k].product.price * items[k].quantity])

StagedItems(items) ==
    [k \in 1..Len(items) |->
        [productId |-> items[k].product.id, quantity |-> items[k].quantity,
         unitPrice |-> items[k].product.price]]

FindProduct_First(items, productId) == items[1].product

\* cartItems.find((c) => c.product.id === productId)?.product
FindProduct(items, productId) ==
    items[Min({k \in 1..Len(items) : items[k].product.id = productId})].product

StartCreateOrder(r, u, shippingAddress) ==
    /\ req[r].pc = "idle"
    /\ LET rec == [Begin("createOrder", u) EXCEPT !.shippingAddress = shippingAddress] IN
       req' = [req EXCEPT ![r] =
                 IF ~Authenticated(u) THEN Rejected(rec, 401, "No token provided")
                 ELSE IF shippingAddress = "" THEN Rejected(rec, 400, "Shipping address is required")
                 ELSE [rec EXCEPT !.pc = "co_cart"]]
    /\ UNCHANGED db

CreateOrderReadCart_ActiveOnly(r, ok) ==
    /\ req[r].pc = "co_cart"
    /\ UNCHANGED db
    /\ IF ~ok THEN Throw(r, 500, "Failed to fetch cart", "")
       ELSE \E lines \in Perms(CartOf(req[r].user)) :
              LET items == JoinCart(lines)
                  bad == FirstInsufficient(items)
              IN IF CartIsEmpty(items) THEN Throw(r, 400, "Cart is empty", "")
                 ELSE IF \E k \in 1..Len(items) : ~isActive[items[k].product.id]
                      THEN Throw(r, 400, "Product is not available", "")
                 ELSE IF bad # 0
                      THEN Throw(r, 400, "Insufficient stock for", items[bad].product.name)
                 ELSE req' = [req EXCEPT ![r].pc = "co_order", ![r].cartItems = items,
                                         ![r].orderItems = StagedItems(items),
                                         ![r].totalPrice = TotalPrice(items)]

\* select the cart, reject an empty cart, validate stock, stage the items.
CreateOrderReadCart(r, ok) ==
    /\ req[r].pc = "co_cart"
    /\ UNCHANGED db
    /\ IF ~ok THEN Throw(r, 500, "Failed to fetch cart", "")
       ELSE \E lines \in Perms(CartOf(req[r].user)) :
              LET items == JoinCart(lines)
                  bad == FirstInsufficient(items)
              IN IF CartIsEmpty(items) THEN Throw(r, 400, "Cart is empty", "")
                 ELSE IF bad # 0
                      THEN Throw(r, 400, "Insufficient stock for", items[bad].product.name)
                 ELSE req' = [req EXCEPT ![r].pc = "co_order", ![r].cartItems = items,
                                         ![r].orderItems = StagedItems(items),
                                         ![r].totalPrice = TotalPrice(items)]

CreateOrderInsertOrder_StockFirst(r, ok) ==
    /\ req[r].pc = "co_order"
    /\ IF ~ok
       THEN /\ Throw(r, 500, "Failed to create order", "")
            /\ UNCHANGED db
       ELSE /\ order' = (nextOrderId :> [userId |-> req[r].user, totalPrice |-> req[r].totalPrice,
                                         status |-> "PENDING"]) @@ order
            /\ nextOrderId' = nextOrderId + 1
            /\ req' = [req EXCEPT ![r].pc = "co_stock", ![r].i = 1, ![r].order = nextOrderId]
            /\ UNCHANGED <<stock, price, isActive, role, cartItem, nextCartId, orderItem>>

\* insert the Order header with status PENDING.
CreateOrderInsertOrder(r, ok) ==
    /\ req[r].pc = "co_order"
    /\ IF ~ok
       THEN /\ Throw(r, 500, "Failed to create order", "")
            /\ UNCHANGED db
       ELSE /\ order' = (nextOrderId :> [userId |-> req[r].user, totalPrice |-> req[r].totalPrice,
                                         status |-> "PENDING"]) @@ order
            /\ nextOrderId' = nextOrderId + 1
            /\ req' = [req EXCEPT ![r].pc = "co_items", ![r].order = nextOrderId]
            /\ UNCHANGED <<stock, price, isActive, role, cartItem, nextCartId, orderItem>>

\* insert the OrderItems; on failure go on to the rollback of the header.
CreateOrderInsertItems(r, ok) ==
    /\ req[r].pc = "co_items"
    /\ IF ~ok
       THEN /\ req' = [req EXCEPT ![r].pc = "co_rollback", ![r].failed = TRUE]
            /\ UNCHANGED db
       ELSE /\ orderItem' = orderItem \o
                 [k \in 1..Len(req[r].orderItems) |->
                     [orderId |-> req[r].order, productId |-> req[r].orderItems[k].productId,
                      quantity |-> req[r].orderItems[k].quantity,
                      unitPrice |-> req[r].orderItems[k].unitPrice]]
            /\ req' = [req EXCEPT ![r].i = 1,
                                  ![r].pc = IF Len(req[r].orderItems) >= 1 THEN "co_stock" ELSE "co_clear"]
            /\ UNCHANGED <<stock, price, isActive, role, cartItem, nextCartId, order, nextOrderId>>

CreateOrderRollback_NoDelete(r, ok) ==
    /\ req[r].pc = "co_rollback"
    /\ Throw(r, 500, "Failed to create order items", "")
    /\ UNCHANGED db

\* delete the header (result not inspected), then throw.
CreateOrderRollback(r, ok) ==
    /\ req[r].pc = "co_rollback"
    /\ order' = IF ok THEN [o \in DOMAIN order \ {req[r].order} |-> order[o]] ELSE order
    /\ Throw(r, 500, "Failed to create order items", "")
    /\ UNCHANGED <<stock, price, isActive, role, cartItem, nextCartId, nextOrderId, orderItem>>

CreateOrderUpdateStock_Atomic(r, ok) ==
    /\ req[r].pc = "co_stock"
    /\ LET item == req[r].orderItems[req[r].i]
       IN stock' = IF ok THEN [stock EXCEPT ![item.productId] = @ - item.quantity] ELSE stock
    /\ req' = [req EXCEPT ![r].i = @ + 1, ![r].failed = @ \/ ~ok,
                          ![r].pc = IF req[r].i < Len(req[r].orderItems) THEN "co_stock" ELSE "co_clear"]
    /\ UNCHANGED <<price, isActive, role, cartItem, nextCartId, order, nextOrderId, orderItem>>

\* one iteration of the stock loop: write snapshot stock - quantity (result not inspected).
CreateOrderUpdateStock(r, ok) ==
    /\ req[r].pc = "co_stock"
    /\ LET item == req[r].orderItems[req[r].i]
           product == FindProduct(req[r].cartItems, item.productId)
       IN stock' = IF ok THEN [stock EXCEPT ![item.productId] = product.stock - item.quantity]
                   ELSE stock
    /\ req' = [req EXCEPT ![r].i = @ + 1, ![r].failed = @ \/ ~ok,
                          ![r].pc = IF req[r].i < Len(req[r].orderItems) THEN "co_stock" ELSE "co_clear"]
    /\ UNCHANGED <<price, isActive, role, cartItem, nextCartId, order, nextOrderId, orderItem>>

CreateOrderClearCart_Compensating(r, ok) ==
    /\ req[r].pc = "co_clear"
    /\ cartItem' = IF ok THEN cartItem \ CartOf(req[r].user) ELSE cartItem
    /\ order' = IF ok THEN order ELSE [o \in DOMAIN order \ {req[r].order} |-> order[o]]
    /\ orderItem' = IF ok THEN orderItem ELSE SelectSeq(orderItem, LAMBDA it : it.orderId # req[r].order)
    /\ req' = [req EXCEPT ![r].pc = "co_fetch", ![r].failed = @ \/ ~ok]
    /\ UNCHANGED <<stock, price, isActive, role, nextCartId, nextOrderId>>

\* delete every cart line of the user (result not inspected).
CreateOrderClearCart(r, ok) ==
    /\ req[r].pc = "co_clear"
    /\ cartItem' = IF ok THEN cartItem \ CartOf(req[r].user) ELSE cartItem
    /\ req' = [req EXCEPT ![r].pc = "co_fetch", ![r].failed = @ \/ ~ok]
    /\ UNCHANGED <<stock, price, isActive, role, nextCartId, order, nextOrderId, orderItem>>

\* read the complete order back (result not inspected) and answer 201.
CreateOrderFetch(r, ok) ==
    /\ req[r].pc = "co_fetch"
    /\ req' = [req EXCEPT ![r].pc = "done", ![r].http = 201, ![r].failed = @ \/ ~ok]
    /\ UNCHANGED db

(***************************************************************************)
(* PUT /api/orders/:id/status : updateOrderStatus                          *)
(***************************************************************************)
ValidStatus_NoCancelled(status) == status \in OrderStatus \ {"CANCELLED"}

\* body('status').isIn([...])
ValidStatus(status) == status \in OrderStatus

StartUpdateOrderStatus(r, u, id, status) ==
    /\ req[r].pc = "idle"
    /\ LET rec == [Begin("updateOrderStatus", u) EXCEPT !.id = id, !.status = status] IN
       req' = [req EXCEPT ![r] =
                 IF ~Authenticated(u) THEN Rejected(rec, 401, "No token provided")
                 ELSE IF ~Authorized(u, {"STORE_OWNER", "ADMIN"})
                      THEN Rejected(rec, 403, "Not authorized for this action")
                 ELSE IF ~ValidStatus(status) THEN Rejected(rec, 400, "Invalid order status")
                 ELSE [rec EXCEPT !.pc = "us_update"]]
    /\ UNCHANGED db

UpdateOrderStatusWrite_Restoring(r, ok) ==
    /\ req[r].pc = "us_update"
    /\ IF ~ok \/ req[r].id \notin DOMAIN order
       THEN /\ Throw(r, 500, "Failed to update order status", "")
            /\ UNCHANGED db
       ELSE /\ order' = [order EXCEPT ![req[r].id].status = req[r].status]
            /\ stock' = [p \in Products |->
                            IF req[r].status = "CANCELLED"
                            THEN stock[p] + SumSeq([k \in 1..Len(ItemsOf(req[r].id)) |->
                                     IF ItemsOf(req[r].id)[k].productId = p
                                     THEN ItemsOf(req[r].id)[k].quantity ELSE 0])
                            ELSE stock[p]]
            /\ Respond(r, 200)
            /\ UNCHANGED <<price, isActive, role, cartItem, nextCartId, nextOrderId, orderItem>>

\* update ... eq('id', id).select('*').single(): no row is an error as well.
UpdateOrderStatusWrite(r, ok) ==
    /\ req[r].pc = "us_update"
    /\ IF ~ok \/ req[r].id \notin DOMAIN order
       THEN /\ Throw(r, 500, "Failed to update order status", "")
            /\ UNCHANGED db
       ELSE /\ order' = [order EXCEPT ![req[r].id].status = req[r].status]
            /\ Respond(r, 200)
            /\ UNCHANGED <<stock, price, isActive, role, cartItem, nextCartId, nextOrderId, orderItem>>

(***************************************************************************)
(* PUT /api/orders/:id/cancel : cancelOrder                                *)
(***************************************************************************)
NotCancellable_NoDelivered == {"SHIPPED", "CANCELLED"}

NotCancellable_NoShipped == {"DELIVERED", "CANCELLED"}

\* ['SHIPPED', 'DELIVERED', 'CANCELLED'].includes(order.status)
NotCancellable == {"SHIPPED", "DELIVERED", "CANCELLED"}

IsOwner_OrAdmin(o, u) == order[o].userId = u \/ role[u] = "ADMIN"

\* order.userId !== userId is the only ownership test: the role is not read.
IsOwner(o, u) == order[o].userId = u

StartCancelOrder(r, u, id) ==
    /\ req[r].pc = "idle"
    /\ LET rec == [Begin("cancelOrder", u) EXCEPT !.id = id] IN
       req' = [req EXCEPT ![r] =
                 IF ~Authenticated(u) THEN Rejected(rec, 401, "No token provided")
                 ELSE [rec EXCEPT !.pc = "ca_order"]]
    /\ UNCHANGED db

CancelOrderFetch_StatusFirst(r, ok) ==
    /\ req[r].pc = "ca_order"
    /\ UNCHANGED db
    /\ IF ~ok \/ req[r].id \notin DOMAIN order THEN Throw(r, 404, "Order not found", "")
       ELSE IF order[req[r].id].status \in NotCancellable
            THEN Throw(r, 400, "Cannot cancel order with status", order[req[r].id].status)
       ELSE IF ~IsOwner(req[r].id, req[r].user)
            THEN Throw(r, 403, "Not authorized to cancel this order", "")
       ELSE req' = [req EXCEPT ![r].pc = "ca_items"]

\* load the order; not found, then not the owner, then not cancellable.
CancelOrderFetch(r, ok) ==
    /\ req[r].pc = "ca_order"
    /\ UNCHANGED db
    /\ IF ~ok \/ req[r].id \notin DOMAIN order THEN Throw(r, 404, "Order not found", "")
       ELSE IF ~IsOwner(req[r].id, req[r].user)
            THEN Throw(r, 403, "Not authorized to cancel this order", "")
       ELSE IF order[req[r].id].status \in NotCancellable
            THEN Throw(r, 400, "Cannot cancel order with status", order[req[r].id].status)
       ELSE req' = [req EXCEPT ![r].pc = "ca_items"]

CancelNext_FirstOnly(k, n) == IF k = 1 /\ k <= n THEN "ca_read" ELSE "ca_status"

\* Where the restore loop goes when item k of n is next.
CancelNext(k, n) == IF k <= n THEN "ca_read" ELSE "ca_status"

\* select the order items; a failed select leaves orderItems null: no restore.
CancelOrderReadItems(r, ok) ==
    /\ req[r].pc = "ca_items"
    /\ UNCHANGED db
    /\ LET items == IF ok THEN ItemsOf(req[r].id) ELSE <<>> IN
       req' = [req EXCEPT ![r].orderItems = items, ![r].i = 1, ![r].failed = @ \/ ~ok,
                          ![r].pc = CancelNext(1, Len(items))]

\* read the current stock of the item's product; null skips the write.
CancelOrderReadStock(r, ok) ==
    /\ req[r].pc = "ca_read"
    /\ UNCHANGED db
    /\ IF ok
       THEN req' = [req EXCEPT ![r].productStock = stock[req[r].orderItems[req[r].i].productId],
                               ![r].pc = "ca_write"]
       ELSE req' = [req EXCEPT ![r].i = @ + 1, ![r].failed = TRUE,
                               ![r].pc = CancelNext(req[r].i + 1, Len(req[r].orderItems))]

RestoredStock_Overwrite(read, quantity) == quantity

\* The value cancelOrder writes back for an item.
RestoredStock(read, quantity) == read + quantity

CancelOrderWriteStock_Atomic(r, ok) ==
    /\ req[r].pc = "ca_write"
    /\ LET item == req[r].orderItems[req[r].i] IN
       stock' = IF ok THEN [stock EXCEPT ![item.productId] = @ + item.quantity] ELSE stock
    /\ req' = [req EXCEPT ![r].i = @ + 1, ![r].failed = @ \/ ~ok,
                          ![r].pc = CancelNext(req[r].i + 1, Len(req[r].orderItems))]
    /\ UNCHANGED <<price, isActive, role, cartItem, nextCartId, order, nextOrderId, orderItem>>

\* write stock read + quantity (result not inspected).
CancelOrderWriteStock(r, ok) ==
    /\ req[r].pc = "ca_write"
    /\ LET item == req[r].orderItems[req[r].i] IN
       stock' = IF ok THEN [stock EXCEPT ![item.productId] = RestoredStock(req[r].productStock, item.quantity)]
                ELSE stock
    /\ req' = [req EXCEPT ![r].i = @ + 1, ![r].failed = @ \/ ~ok,
                          ![r].pc = CancelNext(req[r].i + 1, Len(req[r].orderItems))]
    /\ UNCHANGED <<price, isActive, role, cartItem, nextCartId, order, nextOrderId, orderItem>>

\* set status CANCELLED; no row or a failed update is a 500.
CancelOrderSetStatus(r, ok) ==
    /\ req[r].pc = "ca_status"
    /\ IF ~ok \/ req[r].id \notin DOMAIN order
       THEN /\ Throw(r, 500, "Failed to cancel order", "")
            /\ UNCHANGED db
       ELSE /\ order' = [order EXCEPT ![req[r].id].status = "CANCELLED"]
            /\ Respond(r, 200)
            /\ UNCHANGED <<stock, price, isActive, role, cartItem, nextCartId, nextOrderId, orderItem>>

(***************************************************************************)
(* POST /api/cart : addToCart                                              *)
(***************************************************************************)
StartAddToCart(r, u, productId, quantity) ==
    /\ req[r].pc = "idle"
    /\ LET rec == [Begin("addToCart", u) EXCEPT !.productId = productId, !.quantity = quantity] IN
       req' = [req EXCEPT ![r] =
                 IF ~Authenticated(u) THEN Rejected(rec, 401, "No token provided")
                 ELSE IF productId = "" THEN Rejected(rec, 400, "Product ID is required")
                 ELSE IF quantity < 1 THEN Rejected(rec, 400, "Quantity must be at least 1")
                 ELSE [rec EXCEPT !.pc = "ac_product"]]
    /\ UNCHANGED db

AddToCartReadProduct_NoActiveCheck(r, ok) ==
    /\ req[r].pc = "ac_product"
    /\ UNCHANGED db
    /\ IF ~ok \/ req[r].productId \notin Products THEN Throw(r, 404, "Product not found", "")
       ELSE IF stock[req[r].productId] < req[r].quantity THEN Throw(r, 400, "Insufficient stock", "")
       ELSE req' = [req EXCEPT ![r].productStock = stock[req[r].productId], ![r].pc = "ac_existing"]

\* read the product: missing, inactive, stock below the quantity.
AddToCartReadProduct(r, ok) ==
    /\ req[r].pc = "ac_product"
    /\ UNCHANGED db
    /\ IF ~ok \/ req[r].productId \notin Products THEN Throw(r, 404, "Product not found", "")
       ELSE IF ~isActive[req[r].productId] THEN Throw(r, 400, "Product is not available", "")
       ELSE IF stock[req[r].productId] < req[r].quantity THEN Throw(r, 400, "Insufficient stock", "")
       ELSE req' = [req EXCEPT ![r].productStock = stock[req[r].productId], ![r].pc = "ac_existing"]

ExistingItem_Never(u, productId, ok) == NoItem

\* .single() on the user's lines for the product: data only if exactly one row.
ExistingItem(u, productId, ok) ==
    LET rows == {c \in CartOf(u) : c.productId = productId}
    IN IF ok /\ Cardinality(rows) = 1
       THEN LET c == CHOOSE x \in rows : TRUE IN [id |-> c.id, quantity |-> c.quantity]
       ELSE NoItem

\* look for the line; an existing line is checked against the summed quantity.
AddToCartReadExisting(r, ok) ==
    /\ req[r].pc = "ac_existing"
    /\ UNCHANGED db
    /\ LET existingItem == ExistingItem(req[r].user, req[r].productId, ok)
           newQuantity == existingItem.quantity + req[r].quantity
       IN IF existingItem = NoItem THEN req' = [req EXCEPT ![r].pc = "ac_insert"]
          ELSE IF req[r].productStock < newQuantity
               THEN Throw(r, 400, "Insufficient stock for requested quantity", "")
          ELSE req' = [req EXCEPT ![r].existingItem = existingItem, ![r].quantity = newQuantity,
                                  ![r].pc = "ac_update"]

\* update the line by id; no row or a failed update is a 500.
AddToCartUpdate(r, ok) ==
    /\ req[r].pc = "ac_update"
    /\ LET rows == {c \in cartItem : c.id = req[r].existingItem.id} IN
       IF ~ok \/ rows = {}
       THEN /\ Throw(r, 500, "Failed to update cart", "")
            /\ UNCHANGED db
       ELSE /\ cartItem' = (cartItem \ rows) \cup {[c EXCEPT !.quantity = req[r].quantity] : c \in rows}
            /\ Respond(r, 200)
            /\ UNCHANGED <<stock, price, isActive, role, nextCartId, order, nextOrderId, orderItem>>

\* insert a new line.
AddToCartInsert(r, ok) ==
    /\ req[r].pc = "ac_insert"
    /\ IF ~ok
       THEN /\ Throw(r, 500, "Failed to add to cart", "")
            /\ UNCHANGED db
       ELSE /\ cartItem' = cartItem \cup {[id |-> nextCartId, userId |-> req[r].user,
                                           productId |-> req[r].productId, quantity |-> req[r].quantity]}
            /\ nextCartId' = nextCartId + 1
            /\ Respond(r, 201)
            /\ UNCHANGED <<stock, price, isActive, role, order, nextOrderId, orderItem>>

(***************************************************************************)
(* PUT /api/cart/:productId : updateCartItem                               *)
(***************************************************************************)
StartUpdateCartItem(r, u, productId, quantity) ==
    /\ req[r].pc = "idle"
    /\ LET rec == [Begin("updateCartItem", u) EXCEPT !.productId = productId, !.quantity = quantity] IN
       req' = [req EXCEPT ![r] =
                 IF ~Authenticated(u) THEN Rejected(rec, 401, "No token provided")
                 ELSE IF quantity < 1 THEN Rejected(rec, 400, "Quantity must be at least 1")
                 ELSE [rec EXCEPT !.pc = "uc_item"]]
    /\ UNCHANGED db

\* .single() on the user's lines for the product: no data is a 404.
UpdateCartItemReadItem(r, ok) ==
    /\ req[r].pc = "uc_item"
    /\ UNCHANGED db
    /\ LET cartItem_ == ExistingItem(req[r].user, req[r].productId, ok) IN
       IF cartItem_ = NoItem THEN Throw(r, 404, "Item not found in cart", "")
       ELSE req' = [req EXCEPT ![r].existingItem = cartItem_, ![r].pc = "uc_product"]

\* read the stock: product && product.stock < quantity; no product, no test.
UpdateCartItemReadProduct(r, ok) ==
    /\ req[r].pc = "uc_product"
    /\ UNCHANGED db
    /\ IF ok /\ req[r].productId \in Products /\ stock[req[r].productId] < req[r].quantity
       THEN Throw(r, 400, "Insufficient stock", "")
       ELSE req' = [req EXCEPT ![r].pc = "uc_update"]

UpdateCartItemWrite_Adds(r, ok) ==
    /\ req[r].pc = "uc_update"
    /\ LET rows == {c \in cartItem : c.id = req[r].existingItem.id} IN
       IF ~ok \/ rows = {}
       THEN /\ Throw(r, 500, "Failed to update cart item", "")
            /\ UNCHANGED db
       ELSE /\ cartItem' = (cartItem \ rows) \cup {[c EXCEPT !.quantity = @ + req[r].quantity] : c \in rows}
            /\ Respond(r, 200)
            /\ UNCHANGED <<stock, price, isActive, role, nextCartId, order, nextOrderId, orderItem>>

\* update the line by id with the requested quantity; no row or a failed update is a 500.
UpdateCartItemWrite(r, ok) ==
    /\ req[r].pc = "uc_update"
    /\ LET rows == {c \in cartItem : c.id = req[r].existingItem.id} IN
       IF ~ok \/ rows = {}
       THEN /\ Throw(r, 500, "Failed to update cart item", "")
            /\ UNCHANGED db
       ELSE /\ cartItem' = (cartItem \ rows) \cup {[c EXCEPT !.quantity = req[r].quantity] : c \in rows}
            /\ Respond(r, 200)
            /\ UNCHANGED <<stock, price, isActive, role, nextCartId, order, nextOrderId, orderItem>>

(***************************************************************************)
(* PUT /api/products/:id : updateProduct                                   *)
(***************************************************************************)
StartUpdateProduct(r, u, id, body) ==
    /\ req[r].pc = "idle"
    /\ LET rec == [Begin("updateProduct", u) EXCEPT !.productId = id, !.body = body] IN
       req' = [req EXCEPT ![r] =
                 IF ~Authenticated(u) THEN Rejected(rec, 401, "No token provided")
                 ELSE IF ~Authorized(u, {"STORE_OWNER", "ADMIN"})
                      THEN Rejected(rec, 403, "Not authorized for this action")
                 ELSE [rec EXCEPT !.pc = "up_product"]]
    /\ UNCHANGED db

\* load the product with its store: missing, then neither the owner nor an admin.
UpdateProductFetch(r, ok) ==
    /\ req[r].pc = "up_product"
    /\ UNCHANGED db
    /\ IF ~ok \/ req[r].productId \notin Products THEN Throw(r, 404, "Product not found", "")
       ELSE IF StoreOwnerOf[req[r].productId] # req[r].user /\ role[req[r].user] # "ADMIN"
            THEN Throw(r, 403, "Not authorized to update this product", "")
       ELSE req' = [req EXCEPT ![r].pc = "up_update"]

\* The column after the update: the body's field when it is defined.
Updated(column, body, field, id) ==
    IF field \in DOMAIN body THEN [column EXCEPT ![id] = body[field]] ELSE column

UpdateProductWrite_Cascade(r, ok) ==
    /\ req[r].pc = "up_update"
    /\ IF ~ok
       THEN /\ Throw(r, 500, "Failed to update product", "")
            /\ UNCHANGED db
       ELSE /\ price' = Updated(price, req[r].body, "price", req[r].productId)
            /\ stock' = Updated(stock, req[r].body, "stock", req[r].productId)
            /\ isActive' = Updated(isActive, req[r].body, "isActive", req[r].productId)
            /\ orderItem' = [k \in 1..Len(orderItem) |->
                                IF orderItem[k].productId = req[r].productId
                                THEN [orderItem[k] EXCEPT !.unitPrice = price'[req[r].productId]]
                                ELSE orderItem[k]]
            /\ Respond(r, 200)
            /\ UNCHANGED <<role, cartItem, nextCartId, order, nextOrderId>>

\* update the allowed fields that the body defines.
UpdateProductWrite(r, ok) ==
    /\ req[r].pc = "up_update"
    /\ IF ~ok
       THEN /\ Throw(r, 500, "Failed to update product", "")
            /\ UNCHANGED db
       ELSE /\ price' = Updated(price, req[r].body, "price", req[r].productId)
            /\ stock' = Updated(stock, req[r].body, "stock", req[r].productId)
            /\ isActive' = Updated(isActive, req[r].body, "isActive", req[r].productId)
            /\ Respond(r, 200)
            /\ UNCHANGED <<role, cartItem, nextCartId, order, nextOrderId, orderItem>>

(***************************************************************************)
(* The response is delivered and the slot is free again.                   *)
(***************************************************************************)
Finish(r) ==
    /\ req[r].pc = "done"
    /\ req' = [req EXCEPT ![r] = IdleReq]
    /\ UNCHANGED db

(***************************************************************************)
(* Specifications.                                                         *)
(***************************************************************************)
\* No request is in flight: a request that starts now runs alone.
Quiet == \A s \in Slots : req[s].pc = "idle"

\* Every request that started has answered.
Settled == \A s \in Slots : req[s].pc \in {"idle", "done"}

\* User u has no request in a slot.
Absent(u) == \A s \in Slots : req[s].pc = "idle" \/ req[s].user # u

\* A request starts in the lowest free slot.
Free(r) == req[r].pc = "idle" /\ \A s \in Slots : s < r => req[s].pc # "idle"

\* Caps on the counters of the model: order ids, cart line ids, and the stock
\* (a repeated cancellation can raise it without limit).
PendingInserts == Cardinality({s \in Slots : req[s].pc \in {"co_cart", "co_order"}})

PendingLines == Cardinality({s \in Slots : req[s].pc \in {"ac_product", "ac_existing", "ac_insert"}})

OrderCap == nextOrderId + PendingInserts <= MaxOrders

CartCap == nextCartId + PendingLines <= MaxCartLines

StockCap == \A p \in Products : stock[p] <= MaxStock

\* The steps of the handlers when every database call succeeds.
AddToCartSteps(r) ==
    \/ AddToCartReadProduct(r, TRUE)
    \/ AddToCartReadExisting(r, TRUE)
    \/ AddToCartUpdate(r, TRUE)
    \/ AddToCartInsert(r, TRUE)

CreateOrderSteps(r) ==
    \/ CreateOrderReadCart(r, TRUE)
    \/ CreateOrderInsertOrder(r, TRUE)
    \/ CreateOrderInsertItems(r, TRUE)
    \/ CreateOrderUpdateStock(r, TRUE)
    \/ CreateOrderClearCart(r, TRUE)
    \/ CreateOrderFetch(r, TRUE)

CancelOrderSteps(r) ==
    \/ CancelOrderFetch(r, TRUE)
    \/ CancelOrderReadItems(r, TRUE)
    \/ CancelOrderReadStock(r, TRUE)
    \/ CancelOrderWriteStock(r, TRUE)
    \/ CancelOrderSetStatus(r, TRUE)

\* Checkout: carts are filled and ordered, one request after the other.
NextOrder ==
    \/ \E r \in Slots, u \in Callers, p \in Products \cup {NoProduct}, q \in 0..MaxQty :
          Quiet /\ Free(r) /\ CartCap /\ StartAddToCart(r, u, p, q)
    \/ \E r \in Slots, u \in Callers, a \in Addresses :
          Quiet /\ Free(r) /\ OrderCap /\ StartCreateOrder(r, u, a)
    \/ \E r \in Slots : AddToCartSteps(r)
    \/ \E r \in Slots : CreateOrderSteps(r)
    \/ \E r \in Slots : Finish(r)

SpecOrder == Init /\ [][NextOrder]_vars

\* Life cycle of one order: the shopper fills the cart and orders once; any
\* user cancels the order or sets its status, one request after the other.
NextLife ==
    \/ \E r \in Slots, p \in Products, q \in 1..MaxQty :
          Quiet /\ Free(r) /\ CartCap /\ StartAddToCart(r, Shopper, p, q)
    \/ \E r \in Slots :
          Quiet /\ Free(r) /\ nextOrderId \in LifeOrderIds /\ StartCreateOrder(r, Shopper, "addr")
    \/ \E r \in Slots, u \in Users, id \in LifeOrderIds :
          Quiet /\ Free(r) /\ StockCap /\ StartCancelOrder(r, u, id)
    \/ \E r \in Slots, u \in Users, id \in LifeOrderIds, st \in StatusInputs :
          Quiet /\ Free(r) /\ StartUpdateOrderStatus(r, u, id, st)
    \/ \E r \in Slots : AddToCartSteps(r)
    \/ \E r \in Slots : CreateOrderSteps(r)
    \/ \E r \in Slots : CancelOrderSteps(r)
    \/ \E r \in Slots : UpdateOrderStatusWrite(r, TRUE)
    \/ \E r \in Slots : Finish(r)

SpecLife == InitLife /\ [][NextLife]_vars

\* Access to the status route: the shopper orders once, then any caller,
\* with or without a token and under every assignment of roles, sets a status.
NextAuth ==
    \/ \E r \in Slots, p \in Products, q \in 1..MaxQty :
          Quiet /\ Free(r) /\ CartCap /\ StartAddToCart(r, Shopper, p, q)
    \/ \E r \in Slots :
          Quiet /\ Free(r) /\ nextOrderId \in LifeOrderIds /\ StartCreateOrder(r, Shopper, "addr")
    \/ \E r \in Slots, u \in Callers, id \in LifeOrderIds, st \in StatusInputs :
          Quiet /\ Free(r) /\ StartUpdateOrderStatus(r, u, id, st)
    \/ \E r \in Slots : AddToCartSteps(r)
    \/ \E r \in Slots : CreateOrderSteps(r)
    \/ \E r \in Slots : UpdateOrderStatusWrite(r, TRUE)
    \/ \E r \in Slots : Finish(r)

SpecAuth == InitAuth /\ [][NextAuth]_vars

\* Concurrent requests: the users first fill their carts with the contended
\* product, one request at a time; then createOrder and cancelOrder requests start while
\* another request is in flight and their database calls interleave freely;
\* a user has one request at a time, orders a non-empty cart and cancels an
\* order of their own, and the slots are freed once every request in flight
\* has answered.
NextRace ==
    \/ \E r \in Slots, u \in Users, q \in 1..MaxQty :
          Quiet /\ Free(r) /\ CartCap /\ nextOrderId = 1 /\ StartAddToCart(r, u, Contended, q)
    \/ \E r \in Slots, u \in Users :
          Free(r) /\ OrderCap /\ Absent(u) /\ CartOf(u) # {} /\ StartCreateOrder(r, u, "addr")
    \/ \E r \in Slots, id \in DOMAIN order :
          Free(r) /\ Absent(order[id].userId) /\ StartCancelOrder(r, order[id].userId, id)
    \/ \E r \in Slots : AddToCartSteps(r)
    \/ \E r \in Slots : CreateOrderSteps(r)
    \/ \E r \in Slots : CancelOrderSteps(r)
    \/ \E r \in Slots : Settled /\ Finish(r)

SpecRace == Init /\ [][NextRace]_vars

\* Ordering and cancelling, one request after the other, every database call
\* succeeding; no status update and no product edit.
NextConserve ==
    \/ \E r \in Slots, p \in Products, q \in 1..MaxQty :
          Quiet /\ Free(r) /\ CartCap /\ StartAddToCart(r, Shopper, p, q)
    \/ \E r \in Slots :
          Quiet /\ Free(r) /\ nextOrderId \in ConserveOrderIds /\ StartCreateOrder(r, Shopper, "addr")
    \/ \E r \in Slots, u \in Users, id \in ConserveOrderIds :
          Quiet /\ Free(r) /\ StartCancelOrder(r, u, id)
    \/ \E r \in Slots : AddToCartSteps(r)
    \/ \E r \in Slots : CreateOrderSteps(r)
    \/ \E r \in Slots : CancelOrderSteps(r)
    \/ \E r \in Slots : Finish(r)

SpecConserve == Init /\ [][NextConserve]_vars

\* Status updates over two orders and a cart, one request after the other.
NextStatus ==
    \/ \E r \in Slots, p \in Products, q \in 1..MaxQty :
          Quiet /\ Free(r) /\ CartCap /\ StartAddToCart(r, Shopper, p, q)
    \/ \E r \in Slots :
          Quiet /\ Free(r) /\ nextOrderId \in StatusOrderIds /\ StartCreateOrder(r, Shopper, "addr")
    \/ \E r \in Slots, u \in Users, id \in StatusOrderIds, st \in StatusInputs :
          Quiet /\ Free(r) /\ StartUpdateOrderStatus(r, u, id, st)
    \/ \E r \in Slots : AddToCartSteps(r)
    \/ \E r \in Slots : CreateOrderSteps(r)
    \/ \E r \in Slots : UpdateOrderStatusWrite(r, TRUE)
    \/ \E r \in Slots : Finish(r)

SpecStatus == Init /\ [][NextStatus]_vars

\* Only cancelOrder requests are in the slots.
OnlyCancels == \A s \in Slots : req[s].pc = "idle" \/ req[s].kind = "cancelOrder"

\* One order of the shopper, then cancelOrder requests of the shopper for it
\* that run at the same time.
NextDouble ==
    \/ \E r \in Slots, p \in Products, q \in 1..MaxQty :
          Quiet /\ Free(r) /\ CartCap /\ nextOrderId = 1 /\ StartAddToCart(r, Shopper, p, q)
    \/ \E r \in Slots :
          Quiet /\ Free(r) /\ nextOrderId = 1 /\ StartCreateOrder(r, Shopper, "addr")
    \/ \E r \in Slots, id \in DOMAIN order :
          OnlyCancels /\ Free(r) /\ StartCancelOrder(r, Shopper, id)
    \/ \E r \in Slots : AddToCartSteps(r)
    \/ \E r \in Slots : CreateOrderSteps(r)
    \/ \E r \in Slots : CancelOrderSteps(r)
    \/ \E r \in Slots : Settled /\ Finish(r)

SpecDouble == Init /\ [][NextDouble]_vars

UpdateCartItemSteps(r) ==
    \/ UpdateCartItemReadItem(r, TRUE)
    \/ UpdateCartItemReadProduct(r, TRUE)
    \/ UpdateCartItemWrite(r, TRUE)

\* No request that writes cart lines is in the slots.
NoCartWriter == \A s \in Slots : req[s].pc = "idle" \/ req[s].kind = "createOrder"

\* A checkout of the shopper while another request of the shopper writes the cart.
NextCheckout ==
    \/ \E r \in Slots, p \in Products, q \in 1..MaxQty :
          Free(r) /\ NoCartWriter /\ CartCap /\ StartAddToCart(r, Shopper, p, q)
    \/ \E r \in Slots, p \in Products, q \in 1..MaxQty :
          Free(r) /\ NoCartWriter /\ StartUpdateCartItem(r, Shopper, p, q)
    \/ \E r \in Slots :
          Free(r) /\ nextOrderId = 1 /\ PendingInserts = 0 /\ StartCreateOrder(r, Shopper, "addr")
    \/ \E r \in Slots : AddToCartSteps(r)
    \/ \E r \in Slots : UpdateCartItemSteps(r)
    \/ \E r \in Slots : CreateOrderSteps(r)
    \/ \E r \in Slots : Settled /\ Finish(r)

SpecCheckout == Init /\ [][NextCheckout]_vars

\* The carts: users add lines and set their quantities, one request after
\* the other; a requested quantity can be one above the largest stock.
NextCart ==
    \/ \E r \in Slots, u \in Users, p \in Products, q \in 1..MaxQty :
          Quiet /\ Free(r) /\ CartCap /\ StartAddToCart(r, u, p, q)
    \/ \E r \in Slots, u \in Callers, p \in Products \cup {NoProduct}, q \in 0..(MaxStock + 1) :
          Quiet /\ Free(r) /\ StartUpdateCartItem(r, u, p, q)
    \/ \E r \in Slots : AddToCartSteps(r)
    \/ \E r \in Slots : UpdateCartItemSteps(r)
    \/ \E r \in Slots : Finish(r)

SpecCart == Init /\ [][NextCart]_vars

UpdateProductSteps(r) ==
    \/ UpdateProductFetch(r, TRUE)
    \/ UpdateProductWrite(r, TRUE)

\* The catalogue changes under the cart: the shopper fills the cart and
\* orders once while store owners and admins change price, stock and isActive
\* of the products, one request after the other.
NextCatalog ==
    \/ \E r \in Slots, p \in Products \cup {NoProduct}, q \in 1..MaxQty :
          Quiet /\ Free(r) /\ CartCap /\ StartAddToCart(r, Shopper, p, q)
    \/ \E r \in Slots :
          Quiet /\ Free(r) /\ nextOrderId \in LifeOrderIds /\ StartCreateOrder(r, Shopper, "addr")
    \/ \E r \in Slots, u \in Users, p \in Products, b \in ProductBodies :
          Quiet /\ Free(r) /\ StartUpdateProduct(r, u, p, b)
    \/ \E r \in Slots : AddToCartSteps(r)
    \/ \E r \in Slots : CreateOrderSteps(r)
    \/ \E r \in Slots : UpdateProductSteps(r)
    \/ \E r \in Slots : Finish(r)

SpecCatalog == Init /\ [][NextCatalog]_vars

\* Everything that runs after an order was placed: the shopper orders twice
\* and cancels, the admin sets statuses and changes the products, one request
\* after the other.
NextFrame ==
    \/ \E r \in Slots, q \in 1..MaxQty :
          Quiet /\ Free(r) /\ CartCap /\ StartAddToCart(r, Shopper, Contended, q)
    \/ \E r \in Slots :
          Quiet /\ Free(r) /\ nextOrderId \in FrameOrderIds /\ StartCreateOrder(r, Shopper, "addr")
    \/ \E r \in Slots, id \in FrameOrderIds :
          Quiet /\ Free(r) /\ StockCap /\ StartCancelOrder(r, Shopper, id)
    \/ \E r \in Slots, u \in Users \ {Shopper}, id \in FrameOrderIds, st \in FrameStatusInputs :
          Quiet /\ Free(r) /\ StartUpdateOrderStatus(r, u, id, st)
    \/ \E r \in Slots, u \in Users \ {Shopper}, b \in ProductBodies :
          Quiet /\ Free(r) /\ StartUpdateProduct(r, u, Contended, b)
    \/ \E r \in Slots : AddToCartSteps(r)
    \/ \E r \in Slots : CreateOrderSteps(r)
    \/ \E r \in Slots : CancelOrderSteps(r)
    \/ \E r \in Slots : UpdateOrderStatusWrite(r, TRUE)
    \/ \E r \in Slots : UpdateProductSteps(r)
    \/ \E r \in Slots : Finish(r)

SpecFrame == Init /\ [][NextFrame]_vars

\* Checkout with persistence failures: the shopper fills the cart and orders,
\* one request after the other, and every database call of createOrder can
\* fail.
NextFault ==
    \/ \E r \in Slots, p \in Products, q \in 1..MaxQty :
          Quiet /\ Free(r) /\ CartCap /\ StartAddToCart(r, Shopper, p, q)
    \/ \E r \in Slots :
          Quiet /\ Free(r) /\ nextOrderId \in FaultOrderIds /\ StartCreateOrder(r, Shopper, "addr")
    \/ \E r \in Slots : AddToCartSteps(r)
    \/ \E r \in Slots, ok \in BOOLEAN : CreateOrderReadCart(r, ok)
    \/ \E r \in Slots, ok \in BOOLEAN : CreateOrderInsertOrder(r, ok)
    \/ \E r \in Slots, ok \in BOOLEAN : CreateOrderInsertItems(r, ok)
    \/ \E r \in Slots, ok \in BOOLEAN : CreateOrderRollback(r, ok)
    \/ \E r \in Slots, ok \in BOOLEAN : CreateOrderUpdateStock(r, ok)
    \/ \E r \in Slots, ok \in BOOLEAN : CreateOrderClearCart(r, ok)
    \/ \E r \in Slots, ok \in BOOLEAN : CreateOrderFetch(r, ok)
    \/ \E r \in Slots : Finish(r)

SpecFault == Init /\ [][NextFault]_vars

\* Life cycle of one order with persistence failures: the shopper orders once
\* and cancels; every database call of createOrder and cancelOrder can fail.
NextFaultLife ==
    \/ \E r \in Slots, p \in Products, q \in 1..MaxQty :
          Quiet /\ Free(r) /\ CartCap /\ StartAddToCart(r, Shopper, p, q)
    \/ \E r \in Slots :
          Quiet /\ Free(r) /\ nextOrderId \in LifeOrderIds /\ StartCreateOrder(r, Shopper, "addr")
    \/ \E r \in Slots, id \in LifeOrderIds :
          Quiet /\ Free(r) /\ StockCap /\ StartCancelOrder(r, Shopper, id)
    \/ \E r \in Slots : AddToCartSteps(r)
    \/ \E r \in Slots, ok \in BOOLEAN : CreateOrderReadCart(r, ok)
    \/ \E r \in Slots, ok \in BOOLEAN : CreateOrderInsertOrder(r, ok)
    \/ \E r \in Slots, ok \in BOOLEAN : CreateOrderInsertItems(r, ok)
    \/ \E r \in Slots, ok \in BOOLEAN : CreateOrderRollback(r, ok)
    \/ \E r \in Slots, ok \in BOOLEAN : CreateOrderUpdateStock(r, ok)
    \/ \E r \in Slots, ok \in BOOLEAN : CreateOrderClearCart(r, ok)
    \/ \E r \in Slots, ok \in BOOLEAN : CreateOrderFetch(r, ok)
    \/ \E r \in Slots, ok \in BOOLEAN : CancelOrderFetch(r, ok)
    \/ \E r \in Slots, ok \in BOOLEAN : CancelOrderReadItems(r, ok)
    \/ \E r \in Slots, ok \in BOOLEAN : CancelOrderReadStock(r, ok)
    \/ \E r \in Slots, ok \in BOOLEAN : CancelOrderWriteStock(r, ok)
    \/ \E r \in Slots, ok \in BOOLEAN : CancelOrderSetStatus(r, ok)
    \/ \E r \in Slots : Finish(r)

SpecFaultLife == Init /\ [][NextFaultLife]_vars

(***************************************************************************)
(* Properties.  A finished request still holds its inputs, its response    *)
(* and the snapshot `pre` of the tables taken when it started.             *)
(***************************************************************************)
Done(r, kind) == req[r].kind = kind /\ req[r].pc = "done"

\* The cart of the requesting user when the request started.
PreCartOf(r) == {c \in req[r].pre.cartItem : c.userId = req[r].user}

\* Orders that did not exist when the request started.
NewOrders(r) == DOMAIN order \ DOMAIN req[r].pre.order

\* Total quantity of product p in the items of order o.
OrderedQty(o, p) ==
    LET rows == SelectSeq(ItemsOf(o), LAMBDA it : it.productId = p)
    IN SumSeq([k \in 1..Len(rows) |-> rows[k].quantity])

ItemsValue(o) ==
    LET rows == ItemsOf(o)
    IN SumSeq([k \in 1..Len(rows) |-> rows[k].unitPrice * rows[k].quantity])

\* A createOrder request that passed authentication and validation has ended.
CheckoutDone(r) ==
    /\ Done(r, "createOrder")
    /\ req[r].user \in Users
    /\ req[r].shippingAddress # ""

Covered(r) == \A c \in PreCartOf(r) : c.quantity <= req[r].pre.stock[c.productId]

Offending(r) == {c \in PreCartOf(r) : c.quantity > req[r].pre.stock[c.productId]}

TablesUnchanged(r) ==
    /\ stock = req[r].pre.stock
    /\ order = req[r].pre.order
    /\ orderItem = req[r].pre.orderItem
    /\ cartItem = req[r].pre.cartItem

\* C1: a createOrder that runs alone without persistence failure on a
\* non-empty cart whose every line is covered by the stock answers 201,
\* creates exactly one order, PENDING, owned by the user, with one order item
\* per cart line, and leaves the user's cart empty.
C1_CreateOrderSucceeds ==
    \A r \in Slots :
        (CheckoutDone(r) /\ PreCartOf(r) # {} /\ Covered(r)) =>
            /\ req[r].http = 201
            /\ \E o \in NewOrders(r) :
                  /\ NewOrders(r) = {o}
                  /\ order[o].status = "PENDING"
                  /\ order[o].userId = req[r].user
                  /\ Len(ItemsOf(o)) = Cardinality(PreCartOf(r))
                  /\ \A c \in PreCartOf(r) : \E k \in 1..Len(ItemsOf(o)) :
                        /\ ItemsOf(o)[k].productId = c.productId
                        /\ ItemsOf(o)[k].quantity = c.quantity
                  /\ Len(orderItem) = Len(req[r].pre.orderItem) + Len(ItemsOf(o))
            /\ \A o \in DOMAIN req[r].pre.order : o \in DOMAIN order /\ order[o] = req[r].pre.order[o]
            /\ CartOf(req[r].user) = {}

C1_Witness ==
    \E r \in Slots :
        /\ CheckoutDone(r) /\ Covered(r)
        /\ Cardinality(PreCartOf(r)) = 2
        /\ req[r].http = 201

\* The items of order o are written (no insert or rollback is pending).
Persisted(o) ==
    \A r \in Slots : ~(req[r].order = o /\ req[r].pc \in {"co_items", "co_rollback"})

\* C2: for every order whose header and items are persisted, totalPrice is
\* the sum of unitPrice * quantity over its items, and each unitPrice is the
\* product price that createOrder read together with the cart.
C2_TotalIsSumOfItems ==
    /\ \A o \in DOMAIN order : Persisted(o) => order[o].totalPrice = ItemsValue(o)
    /\ \A r \in Slots :
          (req[r].kind = "createOrder" /\ (req[r].pc \in {"co_stock", "co_clear", "co_fetch"}
                                           \/ (req[r].pc = "done" /\ req[r].http = 201))) =>
              /\ Len(ItemsOf(req[r].order)) = Len(req[r].cartItems)
              /\ \A k \in 1..Len(req[r].cartItems) :
                    /\ ItemsOf(req[r].order)[k].unitPrice = req[r].cartItems[k].product.price
                    /\ ItemsOf(req[r].order)[k].quantity = req[r].cartItems[k].quantity
                    /\ ItemsOf(req[r].order)[k].productId = req[r].cartItems[k].product.id

C2_Witness ==
    \E o \in DOMAIN order :
        /\ Persisted(o)
        /\ Len(ItemsOf(o)) = 2
        /\ ItemsOf(o)[1].unitPrice # ItemsOf(o)[2].unitPrice
        /\ \E k \in 1..2 : ItemsOf(o)[k].quantity = 2

\* C3: a successful createOrder that runs alone lowers the stock of every
\* product by the quantity ordered of it and changes no other stock.
C3_StockDecrement ==
    \A r \in Slots :
        (CheckoutDone(r) /\ req[r].http = 201) =>
            \A p \in Products : stock[p] = req[r].pre.stock[p] - OrderedQty(req[r].order, p)

C3_Witness ==
    \E r \in Slots, p, q \in Products :
        /\ CheckoutDone(r) /\ req[r].http = 201
        /\ OrderedQty(req[r].order, p) = 2
        /\ OrderedQty(req[r].order, q) = 0
        /\ req[r].pre.stock[q] > 0

\* C4: when some cart line asks for more than the stock, createOrder answers
\* 400 "Insufficient stock for <product>" naming such a product, and no
\* order, order item, stock or cart line is changed, wherever that line is.
C4_InsufficientStockRejected ==
    \A r \in Slots :
        (CheckoutDone(r) /\ Offending(r) # {}) =>
            /\ req[r].http = 400
            /\ req[r].error.text = "Insufficient stock for"
            /\ \E c \in Offending(r) : req[r].error.name = c.productId
            /\ TablesUnchanged(r)

C4_Witness ==
    \E r \in Slots :
        /\ CheckoutDone(r)
        /\ Cardinality(PreCartOf(r)) = 2
        /\ Cardinality(Offending(r)) = 1
        /\ req[r].http = 400

\* C5: createOrder on an empty cart answers 400 "Cart is empty" and changes
\* no order, order item or stock.
C5_EmptyCartRejected ==
    \A r \in Slots :
        (CheckoutDone(r) /\ PreCartOf(r) = {}) =>
            /\ req[r].http = 400
            /\ req[r].error.text = "Cart is empty"
            /\ TablesUnchanged(r)

C5_Witness ==
    \E r \in Slots :
        /\ CheckoutDone(r) /\ PreCartOf(r) = {}
        /\ req[r].pre.cartItem # {}
        /\ req[r].http = 400

\* A cancelOrder of an existing order by an authenticated caller has ended.
CancelDone(r) ==
    /\ Done(r, "cancelOrder")
    /\ req[r].user \in Users
    /\ req[r].id \in DOMAIN req[r].pre.order

ByOwner(r) == req[r].pre.order[req[r].id].userId = req[r].user

PreStatus(r) == req[r].pre.order[req[r].id].status

\* C6: cancelOrder by the owner of a PENDING or PAID order, alone and without
\* persistence failure, adds every item's quantity back to its product's
\* stock and sets the status to CANCELLED.
C6_CancelRestoresStock ==
    \A r \in Slots :
        (CancelDone(r) /\ ByOwner(r) /\ PreStatus(r) \in {"PENDING", "PAID"}) =>
            /\ req[r].http = 200
            /\ order[req[r].id].status = "CANCELLED"
            /\ \A p \in Products : stock[p] = req[r].pre.stock[p] + OrderedQty(req[r].id, p)

C6_Witness ==
    \E r \in Slots :
        /\ CancelDone(r) /\ ByOwner(r)
        /\ PreStatus(r) = "PAID"
        /\ Len(ItemsOf(req[r].id)) = 2
        /\ req[r].http = 200

\* C7: cancelOrder by the owner of a SHIPPED, DELIVERED or CANCELLED order
\* answers 400 and leaves every stock and the status unchanged.
C7_CancelInvalidState ==
    \A r \in Slots :
        (CancelDone(r) /\ ByOwner(r) /\ PreStatus(r) \in {"SHIPPED", "DELIVERED", "CANCELLED"}) =>
            /\ req[r].http = 400
            /\ req[r].error.text = "Cannot cancel order with status"
            /\ TablesUnchanged(r)

C7_Witness ==
    \E r \in Slots :
        /\ CancelDone(r) /\ ByOwner(r)
        /\ PreStatus(r) = "DELIVERED"
        /\ req[r].http = 400

\* C8: cancelOrder by a user who is not the owner, whatever the role, answers
\* 403 and changes no order status and no stock.
C8_CancelForbidden ==
    \A r \in Slots :
        (CancelDone(r) /\ ~ByOwner(r)) =>
            /\ req[r].http = 403
            /\ TablesUnchanged(r)

C8_Witness ==
    \E r \in Slots :
        /\ CancelDone(r) /\ ~ByOwner(r)
        /\ role[req[r].user] = "ADMIN"
        /\ PreStatus(r) = "PENDING"
        /\ req[r].http = 403

\* The transition graph of the data model.
Rank(st) == CASE st = "PENDING" -> 0 [] st = "PAID" -> 1 [] st = "SHIPPED" -> 2 [] OTHER -> 3

Allowed(old, new) ==
    \/ new = "CANCELLED" /\ old \in {"PENDING", "PAID"}
    \/ old # "CANCELLED" /\ new # "CANCELLED" /\ Rank(old) < Rank(new)

StatusChanged(o) == o \in DOMAIN order' /\ order'[o].status # order[o].status

\* The step is the write of an updateOrderStatus request on order o.
ByStatusUpdate(o) ==
    \E r \in Slots : req[r].pc = "us_update" /\ req[r].id = o /\ req'[r].pc = "done"

\* C9 as stated: every change of an order's status follows the graph
\* PENDING -> {PAID, CANCELLED} -> SHIPPED -> DELIVERED, never backward,
\* CANCELLED only from PENDING or PAID and never left again.
C9_Original ==
    [][\A o \in DOMAIN order : StatusChanged(o) => Allowed(order[o].status, order'[o].status)]_vars

\* C9 amended: an order is created PENDING, and every status change that is
\* not the write of updateOrderStatus is a move from PENDING or PAID to
\* CANCELLED; only updateOrderStatus leaves the graph.
C9_HandlerTransitions ==
    [][/\ \A o \in DOMAIN order' \ DOMAIN order : order'[o].status = "PENDING"
       /\ \A o \in DOMAIN order :
             (StatusChanged(o) /\ ~ByStatusUpdate(o)) =>
                 /\ order[o].status \in {"PENDING", "PAID"}
                 /\ order'[o].status = "CANCELLED"]_vars

C9_Witness ==
    \E r \in Slots :
        /\ CancelDone(r) /\ ByOwner(r)
        /\ PreStatus(r) = "PENDING"
        /\ req[r].http = 200
        /\ order[req[r].id].status = "CANCELLED"

\* An updateOrderStatus request of a store owner or admin has ended.
StatusUpdateDone(r) ==
    /\ Done(r, "updateOrderStatus")
    /\ req[r].user \in Users
    /\ role[req[r].user] \in {"STORE_OWNER", "ADMIN"}

\* C10: updateOrderStatus sets an existing order to any of the five status
\* values from any current status, and rejects any other value with 400
\* leaving the order unchanged.
C10_StatusUpdateAcceptsFive ==
    \A r \in Slots :
        StatusUpdateDone(r) =>
            /\ (req[r].status \in {"PENDING", "PAID", "SHIPPED", "DELIVERED", "CANCELLED"}
                   /\ req[r].id \in DOMAIN req[r].pre.order) =>
                  /\ req[r].http = 200
                  /\ order = [req[r].pre.order EXCEPT ![req[r].id].status = req[r].status]
            /\ req[r].status \notin {"PENDING", "PAID", "SHIPPED", "DELIVERED", "CANCELLED"} =>
                  /\ req[r].http = 400
                  /\ order = req[r].pre.order

C10_Witness ==
    \E r \in Slots :
        /\ StatusUpdateDone(r)
        /\ req[r].id \in DOMAIN req[r].pre.order
        /\ PreStatus(r) = "CANCELLED"
        /\ req[r].status = "PENDING"
        /\ req[r].http = 200

\* The roles the status route lets through.
Privileged(u) == u \in Users /\ role[u] \in {"STORE_OWNER", "ADMIN"}

\* C11: the updateOrderStatus handler runs only for an authenticated caller
\* whose role is STORE_OWNER or ADMIN; without a token the answer is 401, with
\* any other role 403, and in both cases no order is changed.
C11_StatusRouteGuarded ==
    \A r \in Slots :
        req[r].kind = "updateOrderStatus" =>
            /\ req[r].pc = "us_update" => Privileged(req[r].user)
            /\ (req[r].pc = "done" /\ req[r].user = Anon) =>
                  req[r].http = 401 /\ order = req[r].pre.order
            /\ (req[r].pc = "done" /\ req[r].user \in Users /\ ~Privileged(req[r].user)) =>
                  req[r].http = 403 /\ order = req[r].pre.order
            /\ (req[r].pc = "done" /\ req[r].http \in {200, 400, 500}) => Privileged(req[r].user)

C11_Witness ==
    \E r \in Slots :
        /\ Done(r, "updateOrderStatus")
        /\ req[r].user \in Users /\ role[req[r].user] = "ORGANIZER"
        /\ req[r].id \in DOMAIN order /\ order[req[r].id].status = "PENDING"
        /\ req[r].status = "PAID"
        /\ req[r].http = 403

\* A createOrder of product p has answered 201.
Ordered(r, p) ==
    /\ Done(r, "createOrder") /\ req[r].http = 201
    /\ \E k \in 1..Len(req[r].cartItems) : req[r].cartItems[k].product.id = p

\* The stock of p that the request read with its cart, and the quantity it ordered.
SnapStock(r, p) == FindProduct(req[r].cartItems, p).stock

SnapQty(r, p) ==
    LET rows == SelectSeq(req[r].orderItems, LAMBDA it : it.productId = p)
    IN SumSeq([k \in 1..Len(rows) |-> rows[k].quantity])

\* C12: when two createOrder requests of different users for the same product
\* both passed the stock check on the same stock S (neither had written yet)
\* and both answered 201, both orders exist with their items, and the final
\* stock is S minus the quantity of one of them only, never S minus both.
C12_Oversell ==
    \A r1, r2 \in Slots, p \in Products :
        (/\ r1 # r2 /\ Ordered(r1, p) /\ Ordered(r2, p)
         /\ req[r1].user # req[r2].user
         /\ SnapStock(r1, p) = SnapStock(r2, p)) =>
            /\ req[r1].order # req[r2].order
            /\ \A r \in {r1, r2} :
                  /\ req[r].order \in DOMAIN order
                  /\ order[req[r].order].userId = req[r].user
                  /\ OrderedQty(req[r].order, p) = SnapQty(r, p)
            /\ stock[p] \in {SnapStock(r1, p) - SnapQty(r1, p), SnapStock(r1, p) - SnapQty(r2, p)}
            /\ stock[p] # SnapStock(r1, p) - SnapQty(r1, p) - SnapQty(r2, p)

C12_Witness ==
    \E r1, r2 \in Slots :
        /\ r1 # r2 /\ Ordered(r1, Contended) /\ Ordered(r2, Contended)
        /\ req[r1].user # req[r2].user
        /\ SnapStock(r1, Contended) = SnapStock(r2, Contended)
        /\ SnapQty(r1, Contended) + SnapQty(r2, Contended) > SnapStock(r1, Contended)
        /\ OrderedQty(req[r1].order, Contended) + OrderedQty(req[r2].order, Contended)
              > SnapStock(r1, Contended)
        /\ stock[Contended] = SnapStock(r1, Contended) - SnapQty(r2, Contended)

\* A cancelOrder whose order holds one item, of product p, has answered 200.
Cancelled(r, p) ==
    /\ Done(r, "cancelOrder") /\ req[r].http = 200
    /\ Len(req[r].orderItems) = 1 /\ req[r].orderItems[1].productId = p

\* What a finished request read as the stock of p, and what it added to it.
ReadStock(r, p) == IF req[r].kind = "cancelOrder" THEN req[r].productStock ELSE SnapStock(r, p)

Delta(r, p) == IF req[r].kind = "cancelOrder" THEN req[r].orderItems[1].quantity ELSE 0 - SnapQty(r, p)

\* C13: cancelOrder reads the stock and writes it back in two steps.  When a
\* cancelOrder and a createOrder, or two cancelOrder requests of different
\* orders, on the same product both read the stock S before either wrote, the
\* final stock holds the update of one of them only: it is not the stock that
\* running the two requests one after the other gives.
C13_RestoreLostUpdate ==
    \A r1, r2 \in Slots, p \in Products :
        (/\ r1 # r2 /\ Cancelled(r1, p)
         /\ Ordered(r2, p) \/ (Cancelled(r2, p) /\ req[r2].id # req[r1].id)
         /\ ReadStock(r1, p) = ReadStock(r2, p)) =>
            /\ stock[p] \in {ReadStock(r1, p) + Delta(r1, p), ReadStock(r1, p) + Delta(r2, p)}
            /\ stock[p] # ReadStock(r1, p) + Delta(r1, p) + Delta(r2, p)

C13_Witness ==
    \E r1, r2 \in Slots :
        /\ r1 # r2 /\ Cancelled(r1, Contended) /\ Ordered(r2, Contended)
        /\ ReadStock(r1, Contended) = ReadStock(r2, Contended)
        /\ order[req[r1].id].status = "CANCELLED"
        /\ stock[Contended] = ReadStock(r1, Contended) + Delta(r1, Contended)
        /\ stock[Contended] # req[r1].pre.stock[Contended] + Delta(r1, Contended) + Delta(r2, Contended)

\* The header that request r inserted is in the Order table without items.
HeaderOnly(r) ==
    /\ req[r].order \in DOMAIN order
    /\ req[r].order \notin DOMAIN req[r].pre.order
    /\ ItemsOf(req[r].order) = <<>>

\* C14: when the insert of the order items fails, the header is in the table;
\* createOrder then issues the delete of that header and answers 500 with
\* stock, cart lines and order items as they were when the request started;
\* when the delete succeeds the Order table is as it was as well.
C14_RollbackOnItemFailure ==
    [][\A r \in Slots :
          /\ (req[r].pc = "co_items" /\ req'[r].pc # "co_items" /\ orderItem' = orderItem) =>
                /\ req'[r].pc = "co_rollback"
                /\ HeaderOnly(r)
          /\ (req[r].pc = "co_rollback" /\ req'[r].pc # "co_rollback") =>
                /\ req'[r].pc = "done" /\ req'[r].http = 500
                /\ stock' = req[r].pre.stock
                /\ cartItem' = req[r].pre.cartItem
                /\ orderItem' = req[r].pre.orderItem
                /\ order' = req[r].pre.order \/ order' = order
                /\ CreateOrderRollback(r, TRUE) => order' = req[r].pre.order]_vars

C14_Witness ==
    \E r \in Slots :
        /\ Done(r, "createOrder")
        /\ req[r].error.text = "Failed to create order items"
        /\ req[r].http = 500
        /\ Cardinality(PreCartOf(r)) = 2
        /\ req[r].order \notin DOMAIN req[r].pre.order
        /\ nextOrderId = req[r].order + 1
        /\ order = req[r].pre.order
        /\ cartItem = req[r].pre.cartItem /\ stock = req[r].pre.stock

\* A createOrder has ended after its order items were inserted.
ItemsInserted(r) ==
    /\ CheckoutDone(r)
    /\ req[r].order # 0 /\ req[r].order \notin DOMAIN req[r].pre.order
    /\ req[r].error.text # "Failed to create order items"

\* C15: once the order items are inserted nothing is undone, whichever later
\* write fails: the order and its items stay as staged, every stock is either
\* untouched or lowered by the ordered quantity, and the cart is either
\* untouched or empty; any combination of the two is an end state.
C15_NoCompensation ==
    \A r \in Slots :
        ItemsInserted(r) =>
            /\ req[r].order \in DOMAIN order
            /\ order[req[r].order] = [userId |-> req[r].user, totalPrice |-> req[r].totalPrice,
                                       status |-> "PENDING"]
            /\ Len(ItemsOf(req[r].order)) = Len(req[r].orderItems)
            /\ \A k \in 1..Len(req[r].orderItems) :
                  /\ ItemsOf(req[r].order)[k].productId = req[r].orderItems[k].productId
                  /\ ItemsOf(req[r].order)[k].quantity = req[r].orderItems[k].quantity
            /\ \A p \in Products :
                  stock[p] \in {req[r].pre.stock[p], req[r].pre.stock[p] - OrderedQty(req[r].order, p)}
            /\ CartOf(req[r].user) \in {PreCartOf(r), {}}
            /\ ~req[r].failed =>
                  /\ CartOf(req[r].user) = {}
                  /\ \A p \in Products : stock[p] = req[r].pre.stock[p] - OrderedQty(req[r].order, p)

\* Both end states at once: an earlier order left its product's stock at the
\* initial value although its cart line is gone, and the order of r lowered
\* the stock although the cart still holds its lines.
C15_Witness ==
    \E r \in Slots, o \in DOMAIN order, p, q \in Products :
        /\ ItemsInserted(r) /\ req[r].failed
        /\ CartOf(req[r].user) = PreCartOf(r)
        /\ OrderedQty(req[r].order, q) > 0
        /\ stock[q] = req[r].pre.stock[q] - OrderedQty(req[r].order, q)
        /\ o \in DOMAIN req[r].pre.order /\ order[o].userId = req[r].user
        /\ OrderedQty(o, p) > 0 /\ p # q
        /\ stock[p] = MaxStock
        /\ \A c \in PreCartOf(r) : c.productId # p

\* C16 as stated: a createOrder or cancelOrder request in which a database
\* call failed never ends with a success response.  A failed call on which
\* the handler throws ends the request with that error at once; `failed`
\* records the failed calls after which the handler went on.
C16_Original ==
    \A r \in Slots :
        ((Done(r, "createOrder") \/ Done(r, "cancelOrder")) /\ req[r].failed) =>
            req[r].http \notin {200, 201}

\* Request r, a createOrder at position pc, takes its step.
Issues(r, pc) == req[r].kind = "createOrder" /\ req[r].pc = pc /\ req'[r] # req[r]

\* The items staged by r are in the OrderItem table under its header.
ItemsPersisted(r) ==
    /\ req[r].order \in DOMAIN order
    /\ Len(req[r].orderItems) >= 1
    /\ Len(ItemsOf(req[r].order)) = Len(req[r].orderItems)

\* C20: a createOrder run issues its writes in the order header insert, items
\* insert, one stock update per order item, cart delete.  The select of the
\* cart writes nothing; the header is inserted only when the cart is
\* non-empty and every line passed the stock check, with all tables as they
\* were; the items are inserted under the header before any stock or cart
\* write; a stock update is issued only with the items persisted and the cart
\* untouched; the cart delete only after the stock loop went through every
\* item.  Each table is written at its own position only.
C20_WriteOrder ==
    [][\A r \in Slots :
          /\ Issues(r, "co_cart") => db' = db
          /\ Issues(r, "co_order") =>
                /\ PreCartOf(r) # {} /\ Covered(r)
                /\ TablesUnchanged(r)
                /\ <<stock', cartItem', orderItem'>> = <<stock, cartItem, orderItem>>
          /\ Issues(r, "co_items") =>
                /\ req[r].order \in DOMAIN order
                /\ stock = req[r].pre.stock /\ cartItem = req[r].pre.cartItem
                /\ orderItem = req[r].pre.orderItem
                /\ <<stock', cartItem', order'>> = <<stock, cartItem, order>>
          /\ Issues(r, "co_stock") =>
                /\ ItemsPersisted(r)
                /\ req[r].i \in 1..Len(req[r].orderItems)
                /\ req'[r].i = req[r].i + 1
                /\ cartItem = req[r].pre.cartItem
                /\ <<cartItem', order', orderItem'>> = <<cartItem, order, orderItem>>
          /\ Issues(r, "co_clear") =>
                /\ ItemsPersisted(r)
                /\ req[r].i = Len(req[r].orderItems) + 1
                /\ <<stock', order', orderItem'>> = <<stock, order, orderItem>>
          /\ Issues(r, "co_fetch") => db' = db]_vars

\* The stock loop has lowered the stock of both items and the cart delete is next.
C20_Witness ==
    \E r \in Slots :
        /\ req[r].kind = "createOrder" /\ req[r].pc = "co_clear"
        /\ Len(ItemsOf(req[r].order)) = 2
        /\ \A p \in Products : stock[p] < req[r].pre.stock[p]
        /\ cartItem = req[r].pre.cartItem
        /\ Cardinality(CartOf(req[r].user)) = 2

\* An addToCart that passed authentication and validation has ended; the
\* input quantity is still in the request unless the line was updated.
AddToCartDone(r) ==
    /\ Done(r, "addToCart")
    /\ req[r].user \in Users
    /\ req[r].productId # "" /\ req[r].quantity >= 1

CatalogUnchanged(r) ==
    /\ price = req[r].pre.price
    /\ isActive = req[r].pre.isActive

\* C17: addToCart answers 404 for a product that does not exist, 400 "Product
\* is not available" for an inactive product, 400 "Insufficient stock" for an
\* active product whose stock is below the quantity, and in each case leaves
\* the cart and every other table as they were.
C17_AddToCartRejections ==
    \A r \in Slots :
        AddToCartDone(r) =>
            /\ req[r].productId \notin Products =>
                  /\ req[r].http = 404
                  /\ TablesUnchanged(r) /\ CatalogUnchanged(r)
            /\ (req[r].productId \in Products /\ ~req[r].pre.isActive[req[r].productId]) =>
                  /\ req[r].http = 400 /\ req[r].error.text = "Product is not available"
                  /\ TablesUnchanged(r) /\ CatalogUnchanged(r)
            /\ (/\ req[r].productId \in Products /\ req[r].pre.isActive[req[r].productId]
                /\ req[r].http # 200
                /\ req[r].quantity > req[r].pre.stock[req[r].productId]) =>
                  /\ req[r].http = 400 /\ req[r].error.text = "Insufficient stock"
                  /\ TablesUnchanged(r) /\ CatalogUnchanged(r)

C17_Witness ==
    \E r \in Slots :
        /\ AddToCartDone(r)
        /\ req[r].productId \in Products /\ ~req[r].pre.isActive[req[r].productId]
        /\ req[r].quantity <= req[r].pre.stock[req[r].productId]
        /\ PreCartOf(r) # {}
        /\ req[r].http = 400

\* C18: createOrder does not read isActive.  A createOrder on a non-empty
\* cart whose every line is covered by the stock answers 201 and orders every
\* line, inactive products included, while an addToCart of an inactive
\* product is always rejected with 400.
C18_InactiveProductOrdered ==
    \A r \in Slots :
        /\ (CheckoutDone(r) /\ PreCartOf(r) # {} /\ Covered(r)) =>
              /\ req[r].http = 201
              /\ \A c \in PreCartOf(r) : OrderedQty(req[r].order, c.productId) = c.quantity
        /\ (AddToCartDone(r) /\ req[r].productId \in Products
               /\ ~req[r].pre.isActive[req[r].productId]) =>
              /\ req[r].http = 400
              /\ cartItem = req[r].pre.cartItem

C18_Witness ==
    \E r \in Slots : \E c \in PreCartOf(r) :
        /\ CheckoutDone(r) /\ req[r].http = 201
        /\ ~req[r].pre.isActive[c.productId] /\ ~isActive[c.productId]
        /\ OrderedQty(req[r].order, c.productId) = c.quantity
        /\ stock[c.productId] = req[r].pre.stock[c.productId] - c.quantity

\* C19: once the items of an order are inserted, no step of createOrder,
\* cancelOrder, updateOrderStatus, addToCart or updateProduct removes the
\* order, changes its owner or its totalPrice, or changes the productId,
\* quantity or unitPrice of any of its items or their number.
C19_OrderItemsImmutable ==
    [][\A o \in DOMAIN order :
          (Persisted(o) /\ ItemsOf(o) # <<>>) =>
              /\ o \in DOMAIN order'
              /\ order'[o].totalPrice = order[o].totalPrice
              /\ order'[o].userId = order[o].userId
              /\ ItemsOf(o)' = ItemsOf(o)]_vars

\* The first order was cancelled and keeps the unit price it was placed at;
\* the product's price and stock were changed and a later order has the new price.
C19_Witness ==
    \E o, n \in DOMAIN order :
        /\ o < n /\ Persisted(o) /\ Persisted(n)
        /\ order[o].status = "CANCELLED"
        /\ Len(ItemsOf(o)) = 1 /\ Len(ItemsOf(n)) = 1
        /\ ItemsOf(o)[1].productId = Contended /\ ItemsOf(n)[1].productId = Contended
        /\ ItemsOf(o)[1].unitPrice = Prices[Contended]
        /\ price[Contended] # Prices[Contended]
        /\ ItemsOf(n)[1].unitPrice = price[Contended]
        /\ order[o].totalPrice = ItemsValue(o)
        /\ order[n].status = "PAID"

\* C21: cancelOrder by an authenticated caller answers 404 when the order
\* does not exist, otherwise 403 when the caller is not the owner whatever
\* the status, otherwise 400 when the status is SHIPPED, DELIVERED or
\* CANCELLED; a rejected request changes no table.
C21_CancelRejectionOrder ==
    \A r \in Slots :
        (Done(r, "cancelOrder") /\ req[r].user \in Users) =>
            IF req[r].id \notin DOMAIN req[r].pre.order
            THEN req[r].http = 404 /\ TablesUnchanged(r)
            ELSE IF ~ByOwner(r)
            THEN req[r].http = 403 /\ TablesUnchanged(r)
            ELSE IF PreStatus(r) \in {"SHIPPED", "DELIVERED", "CANCELLED"}
            THEN req[r].http = 400 /\ TablesUnchanged(r)
            ELSE req[r].http = 200

C21_Witness ==
    \E r \in Slots :
        /\ CancelDone(r) /\ ~ByOwner(r)
        /\ PreStatus(r) = "SHIPPED"
        /\ req[r].http = 403
        /\ req[r].error.text = "Not authorized to cancel this order"

\* The cart lines of user u for product p.
LinesOf(u, p) == {c \in CartOf(u) : c.productId = p}

UniqueLines == \A u \in Users, p \in Products : Cardinality(LinesOf(u, p)) <= 1

\* Request r, an addToCart at position pc, takes its step.
Adds(r, pc) == req[r].kind = "addToCart" /\ req[r].pc = pc /\ req'[r] # req[r]

\* C22: an addToCart that finds a line of the user for the product goes on to
\* update that line with the sum of the line's and the requested quantity
\* when the sum is at most the stock, and otherwise answers 400 and leaves
\* the cart as it is; the update changes the quantity of that line alone and
\* adds no line; a line is inserted only when the user has none for the
\* product; every quantity written is at most the stock.  After every step
\* there is at most one line per user and product.
C22_AddToCartMerges ==
    [][/\ UniqueLines'
       /\ \A r \in Slots :
             LET u == req[r].user
                 p == req[r].productId
                 rows == LinesOf(u, p)
             IN /\ (Adds(r, "ac_existing") /\ rows # {}) =>
                      \E c \in rows :
                         /\ cartItem' = cartItem
                         /\ IF c.quantity + req[r].quantity <= stock[p]
                            THEN /\ req'[r].pc = "ac_update"
                                 /\ req'[r].quantity = c.quantity + req[r].quantity
                                 /\ req'[r].existingItem.id = c.id
                            ELSE /\ req'[r].pc = "done" /\ req'[r].http = 400
                /\ (Adds(r, "ac_existing") /\ rows = {}) => req'[r].pc = "ac_insert"
                /\ Adds(r, "ac_update") =>
                      \E c \in rows :
                         /\ c.id = req[r].existingItem.id
                         /\ cartItem' = (cartItem \ {c}) \cup {[c EXCEPT !.quantity = req[r].quantity]}
                         /\ req[r].quantity <= stock[p]
                         /\ req'[r].http = 200
                /\ Adds(r, "ac_insert") =>
                      /\ rows = {}
                      /\ \E c \in cartItem' \ cartItem :
                            /\ cartItem' = cartItem \cup {c}
                            /\ c.userId = u /\ c.productId = p
                            /\ c.quantity = req[r].quantity
                            /\ c.quantity <= stock[p]
                      /\ req'[r].http = 201]_vars

\* A line of quantity 1 was raised to 2 by an addToCart of 1.
C22_Witness ==
    \E r \in Slots :
        /\ Done(r, "addToCart") /\ req[r].http = 200
        /\ \E c \in PreCartOf(r) :
              /\ c.productId = req[r].productId
              /\ c.quantity = 1 /\ req[r].quantity = 2
              /\ [c EXCEPT !.quantity = 2] \in cartItem
        /\ Cardinality(cartItem) = Cardinality(req[r].pre.cartItem)
        /\ Cardinality(CartOf(req[r].user)) = 2

\* An updateCartItem that passed authentication and validation has ended.
UpdateCartItemDone(r) ==
    /\ Done(r, "updateCartItem")
    /\ req[r].user \in Users
    /\ req[r].quantity >= 1

\* The lines of the requesting user for the requested product when r started.
PreLines(r) == {c \in PreCartOf(r) : c.productId = req[r].productId}

\* C23: updateCartItem answers 404 and changes nothing when the user has no
\* line for the product, 400 and changes nothing when the product's stock is
\* below the requested quantity, and otherwise sets the quantity of the
\* user's line to the requested one; the set of line ids, their users and
\* products, and every other line stay as they were.
C23_UpdateCartItem ==
    \A r \in Slots :
        UpdateCartItemDone(r) =>
            IF PreLines(r) = {}
            THEN req[r].http = 404 /\ TablesUnchanged(r)
            ELSE IF req[r].pre.stock[req[r].productId] < req[r].quantity
            THEN req[r].http = 400 /\ TablesUnchanged(r)
            ELSE /\ req[r].http = 200
                 /\ \E c \in PreLines(r) :
                       cartItem = (req[r].pre.cartItem \ {c})
                                     \cup {[c EXCEPT !.quantity = req[r].quantity]}
                 /\ stock = req[r].pre.stock /\ order = req[r].pre.order
                 /\ orderItem = req[r].pre.orderItem

\* A line of quantity 2 was set to 1 while the other user holds a line.
C23_Witness ==
    \E r \in Slots :
        /\ UpdateCartItemDone(r) /\ req[r].http = 200
        /\ req[r].quantity = 1
        /\ \E c \in PreLines(r) : c.quantity = 2
        /\ \E c \in cartItem : c.userId # req[r].user /\ c.productId = req[r].productId
        /\ Cardinality(cartItem) = Cardinality(req[r].pre.cartItem)

\* The quantity of product p held by the orders that are not CANCELLED.
RECURSIVE HeldUpTo(_, _)
HeldUpTo(n, p) ==
    IF n = 0 THEN 0
    ELSE HeldUpTo(n - 1, p)
            + (IF n \in DOMAIN order /\ order[n].status # "CANCELLED" THEN OrderedQty(n, p) ELSE 0)

Held(p) == HeldUpTo(nextOrderId - 1, p)

\* The stock every product starts with.
InitialStock(p) == MaxStock

\* C24: between the requests of a run of createOrder and cancelOrder requests
\* that are not interleaved and meet no persistence failure, the stock of
\* every product plus the quantities of it in the items of the orders that
\* are not CANCELLED equals the product's initial stock.
C24_StockConserved ==
    Settled => \A p \in Products : stock[p] + Held(p) = InitialStock(p)

\* One order of two products was cancelled and its quantities are back, while
\* a second order holds stock.
C24_Witness ==
    /\ Settled
    /\ \E r \in Slots : CancelDone(r) /\ req[r].http = 200 /\ Len(req[r].orderItems) = 2
    /\ \E o \in DOMAIN order : order[o].status = "CANCELLED"
    /\ \E o \in DOMAIN order, p \in Products :
          order[o].status = "PENDING" /\ OrderedQty(o, p) > 0 /\ stock[p] < InitialStock(p)

\* C25: over non-interleaved cancelOrder and updateOrderStatus requests the
\* quantities of an order's items are added back to the stock at most once.
\* With one order and no product edit the stock of an ordered product is its
\* initial stock minus the ordered quantity plus that quantity once per
\* restore, so at most one restore keeps it at or below the initial stock.
C25_RestoredOnce ==
    \A o \in DOMAIN order, p \in Products :
        OrderedQty(o, p) > 0 => stock[p] <= InitialStock(p)

\* C26: updateOrderStatus leaves every stock, every order item, every cart
\* line and every other order as they were, and of the addressed order it
\* changes the status only, also when the new status is CANCELLED.
C26_StatusUpdateFrame ==
    \A r \in Slots :
        Done(r, "updateOrderStatus") =>
            /\ stock = req[r].pre.stock
            /\ orderItem = req[r].pre.orderItem
            /\ cartItem = req[r].pre.cartItem
            /\ DOMAIN order = DOMAIN req[r].pre.order
            /\ \A o \in DOMAIN order :
                  IF o = req[r].id /\ req[r].http = 200
                  THEN order[o] = [req[r].pre.order[o] EXCEPT !.status = req[r].status]
                  ELSE order[o] = req[r].pre.order[o]

\* A PENDING order was set to CANCELLED by the status path: its quantity is
\* still missing from the stock, while another order and a cart line exist.
C26_Witness ==
    \E r \in Slots :
        /\ StatusUpdateDone(r) /\ req[r].http = 200
        /\ req[r].id \in DOMAIN req[r].pre.order
        /\ PreStatus(r) = "PENDING" /\ req[r].status = "CANCELLED"
        /\ \E p \in Products : OrderedQty(req[r].id, p) > 0 /\ stock[p] < InitialStock(p)
        /\ Cardinality(DOMAIN order) = 2
        /\ cartItem # {}

\* C27: under every interleaving of createOrder and cancelOrder requests no
\* stock is negative: createOrder writes a stock it checked against the
\* quantity minus that quantity, cancelOrder writes a stock it read plus a
\* quantity.
C27_StockNonNegative ==
    /\ \A p \in Products : stock[p] >= 0
    /\ \A r \in Slots :
          /\ req[r].pc = "co_stock" =>
                \A k \in 1..Len(req[r].orderItems) :
                    FindProduct(req[r].cartItems, req[r].orderItems[k].productId).stock
                       >= req[r].orderItems[k].quantity
          /\ req[r].pc = "ca_write" => req[r].productStock >= 0

\* A createOrder and a cancelOrder of another order read the same stock; the
\* cancel wrote first, and the createOrder's write left the stock at 0.
C27_Witness ==
    \E r1, r2 \in Slots :
        /\ Ordered(r1, Contended) /\ Cancelled(r2, Contended)
        /\ req[r1].order # req[r2].id
        /\ SnapStock(r1, Contended) = ReadStock(r2, Contended)
        /\ SnapQty(r1, Contended) = SnapStock(r1, Contended)
        /\ stock[Contended] = 0

\* A cancelOrder request has passed the status check of its order.
PassedStatusCheck(r) ==
    /\ req[r].kind = "cancelOrder"
    /\ \/ req[r].pc \in {"ca_items", "ca_read", "ca_write", "ca_status"}
       \/ req[r].pc = "done" /\ req[r].http = 200

\* C28: of two cancelOrder requests by the owner for the same order at most
\* one passes the status check, in every interleaving, and the order's
\* quantities are added to the stock at most once (with one order and no
\* product edit: no stock rises above the initial stock).
C28_OneCancelRestores ==
    /\ \A r1, r2 \in Slots :
          (r1 # r2 /\ req[r1].id = req[r2].id) => ~(PassedStatusCheck(r1) /\ PassedStatusCheck(r2))
    /\ \A p \in Products : stock[p] <= InitialStock(p)

\* C29: every cart line the final cart deletion of createOrder removes is
\* represented by an item of the created order, with the line's product and
\* quantity, also when addToCart or updateCartItem requests of the same user
\* wrote the cart after createOrder read it.
C29_DeletedLinesOrdered ==
    [][\A r \in Slots :
          (req[r].kind = "createOrder" /\ req[r].pc = "co_clear" /\ req'[r].pc = "co_fetch") =>
              \A c \in cartItem \ cartItem' :
                  \E k \in 1..Len(ItemsOf(req[r].order)) :
                      /\ ItemsOf(req[r].order)[k].productId = c.productId
                      /\ ItemsOf(req[r].order)[k].quantity = c.quantity]_vars

\* C30: a cancelOrder that ends with 404, 403, 400 or 500 has changed no
\* stock and no order status; in particular, when the write of status
\* CANCELLED fails, the stocks are what they were before the request.
C30_CancelErrorNoEffect ==
    \A r \in Slots :
        (Done(r, "cancelOrder") /\ req[r].http \in {404, 403, 400, 500}) =>
            /\ stock = req[r].pre.stock
            /\ order = req[r].pre.order

====
